---- MODULE Spec2Model ----
(***************************************************************************)
(* Model of src/app.py, the Mergington High School activities API: the     *)
(* in-memory session store and activity store and the handlers login,      *)
(* logout, verify_session, signup_for_activity and                         *)
(* unregister_from_activity.                                               *)
(*                                                                         *)
(* Header values and tokens are Python strings and are modelled as         *)
(* sequences of one-character strings, so that startswith and replace are  *)
(* computed as Python computes them.  Emails, activity names, usernames    *)
(* and passwords are only ever compared for equality and are TLA+ strings. *)
(* An absent Optional[str] is the value None.                              *)
(***************************************************************************)
EXTENDS Integers, Sequences, FiniteSets, TLC

VARIABLES sessions, activities, issued, loggedOut, revoked, log, threads

vars == <<sessions, activities, issued, loggedOut, revoked, log, threads>>

(***************************************************************************)
(* Bounds of the model.                                                    *)
(***************************************************************************)
\* number of distinct tokens secrets.token_hex hands out in a run
MaxTokens == 2
\* number of worker threads serving requests at the same time (SpecConc)
NumThreads == 2
\* number of students not enrolled at start that the roster client signs up
\* (SpecCap); Math Club starts with 2 of 10 places taken
NumStudents == 9

\* secrets.token_hex(16): 16 random bytes, two hex digits each
NBytes == 16

(***************************************************************************)
(* Python values.                                                          *)
(***************************************************************************)
None == <<"None">>

Bearer == <<"B", "e", "a", "r", "e", "r", " ">>

HexDigits == <<"a", "1", "f", "0", "7", "c", "3", "e", "9", "b", "2", "d", "4", "5", "6", "8">>

RECURSIVE Repeat(_, _)
Repeat(c, n) == IF n = 0 THEN <<>> ELSE <<c>> \o Repeat(c, n - 1)

\* bool(x) of an Optional[str]: None and "" are falsy
truthy(x) == x # None /\ x # <<>>

\* str.startswith
startswith(s, prefix) ==
    /\ Len(s) >= Len(prefix)
    /\ SubSeq(s, 1, Len(prefix)) = prefix

\* str.find(sub): the index (from 1) of the leftmost occurrence of sub, 0 if
\* there is none
find(s, sub) ==
    LET at == {i \in 1..(Len(s) - Len(sub) + 1) :
                  s[i] = sub[1] /\ SubSeq(s, i, i + Len(sub) - 1) = sub}
    IN  IF at = {} THEN 0 ELSE CHOOSE i \in at : \A j \in at : i <= j

\* str.replace(old, new) for a non-empty old: every non-overlapping
\* occurrence, leftmost first
RECURSIVE replace(_, _, _)
replace(s, old, new) ==
    LET i == find(s, old)
    IN  IF i = 0 THEN s
        ELSE SubSeq(s, 1, i - 1) \o new
                \o replace(SubSeq(s, i + Len(old), Len(s)), old, new)

\* x in list
RECURSIVE contains(_, _)
contains(list, x) ==
    IF list = <<>> THEN FALSE
    ELSE IF Head(list) = x THEN TRUE ELSE contains(Tail(list), x)

\* a list.remove that drops the head of the list, whatever it is
list_remove_head(list, x) == IF list = <<>> THEN <<>> ELSE Tail(list)

\* list.remove(x): drops the first element equal to x (x is in the list)
RECURSIVE list_remove(_, _)
list_remove(list, x) ==
    IF list = <<>> THEN <<>>
    ELSE IF Head(list) = x THEN Tail(list)
         ELSE <<Head(list)>> \o list_remove(Tail(list), x)

\* a list.append that inserts at the front
list_prepend(list, x) == <<x>> \o list

\* list.append(x)
list_append(list, x) == Append(list, x)

\* number of occurrences of x in list
RECURSIVE count(_, _)
count(list, x) ==
    IF list = <<>> THEN 0
    ELSE (IF Head(list) = x THEN 1 ELSE 0) + count(Tail(list), x)

\* d[k] = v on a dict
dict_set(d, k, v) == [x \in DOMAIN d \cup {k} |-> IF x = k THEN v ELSE d[x]]

\* del d[k]
dict_del(d, k) == [x \in DOMAIN d \ {k} |-> d[x]]

(***************************************************************************)
(* The stores at process start.                                            *)
(***************************************************************************)
sessions_init == [t \in {} |-> "teacher"]

activities_init ==
    [n \in {"Chess Club", "Programming Class", "Gym Class", "Soccer Team",
            "Basketball Team", "Art Club", "Drama Club", "Math Club",
            "Debate Team"} |->
      CASE n = "Chess Club" ->
             [description |-> "Learn strategies and compete in chess tournaments",
              schedule |-> "Fridays, 3:30 PM - 5:00 PM",
              max_participants |-> 12,
              participants |-> <<"michael@mergington.edu", "daniel@mergington.edu">>]
        [] n = "Programming Class" ->
             [description |-> "Learn programming fundamentals and build software projects",
              schedule |-> "Tuesdays and Thursdays, 3:30 PM - 4:30 PM",
              max_participants |-> 20,
              participants |-> <<"emma@mergington.edu", "sophia@mergington.edu">>]
        [] n = "Gym Class" ->
             [description |-> "Physical education and sports activities",
              schedule |-> "Mondays, Wednesdays, Fridays, 2:00 PM - 3:00 PM",
              max_participants |-> 30,
              participants |-> <<"john@mergington.edu", "olivia@mergington.edu">>]
        [] n = "Soccer Team" ->
             [description |-> "Join the school soccer team and compete in matches",
              schedule |-> "Tuesdays and Thursdays, 4:00 PM - 5:30 PM",
              max_participants |-> 22,
              participants |-> <<"liam@mergington.edu", "noah@mergington.edu">>]
        [] n = "Basketball Team" ->
             [description |-> "Practice and play basketball with the school team",
              schedule |-> "Wednesdays and Fridays, 3:30 PM - 5:00 PM",
              max_participants |-> 15,
              participants |-> <<"ava@mergington.edu", "mia@mergington.edu">>]
        [] n = "Art Club" ->
             [description |-> "Explore your creativity through painting and drawing",
              schedule |-> "Thursdays, 3:30 PM - 5:00 PM",
              max_participants |-> 15,
              participants |-> <<"amelia@mergington.edu", "harper@mergington.edu">>]
        [] n = "Drama Club" ->
             [description |-> "Act, direct, and produce plays and performances",
              schedule |-> "Mondays and Wednesdays, 4:00 PM - 5:30 PM",
              max_participants |-> 20,
              participants |-> <<"ella@mergington.edu", "scarlett@mergington.edu">>]
        [] n = "Math Club" ->
             [description |-> "Solve challenging problems and participate in math competitions",
              schedule |-> "Tuesdays, 3:30 PM - 4:30 PM",
              max_participants |-> 10,
              participants |-> <<"james@mergington.edu", "benjamin@mergington.edu">>]
        [] n = "Debate Team" ->
             [description |-> "Develop public speaking and argumentation skills",
              schedule |-> "Fridays, 4:00 PM - 5:30 PM",
              max_participants |-> 12,
              participants |-> <<"charlotte@mergington.edu", "henry@mergington.edu">>]]

\* the credential file teachers.json, read again by every login
TeachersFile ==
    <<[username |-> "mrodriguez", password |-> "art2024", role |-> "teacher"],
      [username |-> "mchen", password |-> "chess123", role |-> "teacher"]>>

load_teachers == TeachersFile

\* the values secrets.token_hex(nbytes) draws from: strings of 2*nbytes hex
\* digits, of which the model knows MaxTokens
token_hex(nbytes) == {Repeat(HexDigits[i], 2 * nbytes) : i \in 1..MaxTokens}

(***************************************************************************)
(* Responses.  A handler returns the stores it leaves and its response:    *)
(* the HTTP status, the "detail" of an HTTPException, the "message" of a   *)
(* success body (an f-string is the sequence of its pieces), the "token"   *)
(* of a login body and the "authenticated" flag of a verify-session body.  *)
(***************************************************************************)
Response(status, detail, message, token, authenticated) ==
    [status |-> status, detail |-> detail, message |-> message,
     token |-> token, authenticated |-> authenticated]

HTTPException(status_code, detail) ==
    Response(status_code, detail, <<>>, None, FALSE)

Ok(message) == Response(200, "", message, None, FALSE)

Result(sess, acts, resp) == [sessions |-> sess, activities |-> acts, resp |-> resp]

\* authorization.replace('Bearer ', '') if authorization.startswith('Bearer ')
\* else authorization
token_from(authorization) ==
    IF startswith(authorization, Bearer)
    THEN replace(authorization, Bearer, <<>>)
    ELSE authorization

verify_teacher_session(sess, authorization) ==
    IF ~truthy(authorization) THEN FALSE
    ELSE LET token == token_from(authorization)
         IN  token \in DOMAIN sess /\ sess[token] = "teacher"

\* the scan of login over the credential list
RECURSIVE credentials_match(_, _, _)
credentials_match(teachers, username, password) ==
    IF teachers = <<>> THEN FALSE
    ELSE IF Head(teachers).username = username /\ Head(teachers).password = password
         THEN TRUE
         ELSE credentials_match(Tail(teachers), username, password)

\* a login that returns the token without storing it
login_not_stored(sess, acts, username, password, token) ==
    IF credentials_match(load_teachers, username, password)
    THEN Result(sess, acts, Response(200, "", <<"Login successful">>, token, FALSE))
    ELSE Result(sess, acts, HTTPException(401, "Invalid username or password"))

\* login; token is what secrets.token_hex(16) returns when it is called
login(sess, acts, username, password, token) ==
    IF credentials_match(load_teachers, username, password)
    THEN Result(dict_set(sess, token, "teacher"), acts,
                Response(200, "", <<"Login successful">>, token, FALSE))
    ELSE Result(sess, acts, HTTPException(401, "Invalid username or password"))

logout(sess, acts, authorization) ==
    LET after == IF truthy(authorization)
                 THEN LET token == token_from(authorization)
                      IN  IF token \in DOMAIN sess THEN dict_del(sess, token) ELSE sess
                 ELSE sess
    IN  Result(after, acts, Ok(<<"Logout successful">>))

verify_session(sess, acts, authorization) ==
    LET is_valid == verify_teacher_session(sess, authorization)
    IN  Result(sess, acts, Response(200, "", <<>>, None, is_valid))

\* activity["participants"] = list, the other fields of the activity kept
with_participants(acts, activity_name, list) ==
    [acts EXCEPT ![activity_name].participants = list]

\* a signup that does not look at the session
signup_unauthenticated(sess, acts, activity_name, email, authorization) ==
    IF activity_name \notin DOMAIN acts
    THEN Result(sess, acts, HTTPException(404, "Activity not found"))
    ELSE LET activity == acts[activity_name]
         IN  IF contains(activity.participants, email)
             THEN Result(sess, acts, HTTPException(400, "Student is already signed up"))
             ELSE Result(sess,
                         with_participants(acts, activity_name,
                                           list_append(activity.participants, email)),
                         Ok(<<"Signed up ", email, " for ", activity_name>>))

\* a signup that does not look for the email in the list
signup_unchecked_membership(sess, acts, activity_name, email, authorization) ==
    IF ~verify_teacher_session(sess, authorization)
    THEN Result(sess, acts, HTTPException(403, "Only teachers can register students"))
    ELSE IF activity_name \notin DOMAIN acts
    THEN Result(sess, acts, HTTPException(404, "Activity not found"))
    ELSE Result(sess,
                with_participants(acts, activity_name,
                                  list_append(acts[activity_name].participants, email)),
                Ok(<<"Signed up ", email, " for ", activity_name>>))

\* a signup that refuses an email once the activity is full
signup_capacity_checked(sess, acts, activity_name, email, authorization) ==
    IF ~verify_teacher_session(sess, authorization)
    THEN Result(sess, acts, HTTPException(403, "Only teachers can register students"))
    ELSE IF activity_name \notin DOMAIN acts
    THEN Result(sess, acts, HTTPException(404, "Activity not found"))
    ELSE LET activity == acts[activity_name]
         IN  IF contains(activity.participants, email)
             THEN Result(sess, acts, HTTPException(400, "Student is already signed up"))
             ELSE IF Len(activity.participants) >= activity.max_participants
             THEN Result(sess, acts, HTTPException(400, "Activity is full"))
             ELSE Result(sess,
                         with_participants(acts, activity_name,
                                           list_append(activity.participants, email)),
                         Ok(<<"Signed up ", email, " for ", activity_name>>))

signup_for_activity(sess, acts, activity_name, email, authorization) ==
    IF ~verify_teacher_session(sess, authorization)
    THEN Result(sess, acts, HTTPException(403, "Only teachers can register students"))
    ELSE IF activity_name \notin DOMAIN acts
    THEN Result(sess, acts, HTTPException(404, "Activity not found"))
    ELSE LET activity == acts[activity_name]
         IN  IF contains(activity.participants, email)
             THEN Result(sess, acts, HTTPException(400, "Student is already signed up"))
             ELSE Result(sess,
                         with_participants(acts, activity_name,
                                           list_append(activity.participants, email)),
                         Ok(<<"Signed up ", email, " for ", activity_name>>))

\* an unregister that looks the activity up before it looks at the session
unregister_activity_first(sess, acts, activity_name, email, authorization) ==
    IF activity_name \notin DOMAIN acts
    THEN Result(sess, acts, HTTPException(404, "Activity not found"))
    ELSE IF ~verify_teacher_session(sess, authorization)
    THEN Result(sess, acts, HTTPException(403, "Only teachers can unregister students"))
    ELSE LET activity == acts[activity_name]
         IN  IF ~contains(activity.participants, email)
             THEN Result(sess, acts,
                         HTTPException(400, "Student is not signed up for this activity"))
             ELSE Result(sess,
                         with_participants(acts, activity_name,
                                           list_remove(activity.participants, email)),
                         Ok(<<"Unregistered ", email, " from ", activity_name>>))

unregister_from_activity(sess, acts, activity_name, email, authorization) ==
    IF ~verify_teacher_session(sess, authorization)
    THEN Result(sess, acts, HTTPException(403, "Only teachers can unregister students"))
    ELSE IF activity_name \notin DOMAIN acts
    THEN Result(sess, acts, HTTPException(404, "Activity not found"))
    ELSE LET activity == acts[activity_name]
         IN  IF ~contains(activity.participants, email)
             THEN Result(sess, acts,
                         HTTPException(400, "Student is not signed up for this activity"))
             ELSE Result(sess,
                         with_participants(acts, activity_name,
                                           list_remove(activity.participants, email)),
                         Ok(<<"Unregistered ", email, " from ", activity_name>>))

(***************************************************************************)
(* The request log: the last `keep` requests, each with its response and   *)
(* the two stores as they were when the request arrived.  issued is the    *)
(* set of tokens login has returned, loggedOut the set of issued tokens a  *)
(* logout was asked to end, revoked the set of those that no login has     *)
(* returned again since.                                                   *)
(* secrets.token_hex draws 128 random bits from the operating system's     *)
(* generator and the code never compares the result with anything: login   *)
(* may return any of the MaxTokens values the model knows, one it has      *)
(* returned before included.                                               *)
(***************************************************************************)
Request(op, authorization, activity_name, email, username, password) ==
    [op |-> op, authorization |-> authorization, activity_name |-> activity_name,
     email |-> email, username |-> username, password |-> password]

Entry(req, resp) ==
    [req |-> req, resp |-> resp, issued_before |-> issued,
     sessions_before |-> sessions, activities_before |-> activities]

LastN(s, n) == IF Len(s) <= n THEN s ELSE SubSeq(s, Len(s) - n + 1, Len(s))

Logged(keep, req, resp) == log' = LastN(Append(log, Entry(req, resp)), keep)

\* one request served from arrival to response with no other request between
Serve(keep, req, r) ==
    /\ sessions' = r.sessions
    /\ activities' = r.activities
    /\ Logged(keep, req, r.resp)
    /\ UNCHANGED threads

Login(keep, username, password) ==
    LET req == Request("login", None, "", "", username, password)
    IN  IF credentials_match(load_teachers, username, password)
        THEN \E token \in token_hex(NBytes) :
                /\ Serve(keep, req, login(sessions, activities, username, password, token))
                /\ issued' = issued \cup {token}
                /\ revoked' = revoked \ {token}
                /\ UNCHANGED loggedOut
        ELSE /\ Serve(keep, req, login(sessions, activities, username, password, None))
             /\ UNCHANGED <<issued, loggedOut, revoked>>

Logout(keep, authorization) ==
    /\ Serve(keep, Request("logout", authorization, "", "", "", ""),
             logout(sessions, activities, authorization))
    /\ LET ended == IF truthy(authorization)
                    THEN {token_from(authorization)} \cap issued
                    ELSE {}
       IN  /\ loggedOut' = loggedOut \cup ended
           /\ revoked' = revoked \cup ended
    /\ UNCHANGED issued

VerifySession(keep, authorization) ==
    /\ Serve(keep, Request("verify_session", authorization, "", "", "", ""),
             verify_session(sessions, activities, authorization))
    /\ UNCHANGED <<issued, loggedOut, revoked>>

Signup(keep, activity_name, email, authorization) ==
    /\ Serve(keep, Request("signup", authorization, activity_name, email, "", ""),
             signup_for_activity(sessions, activities, activity_name, email, authorization))
    /\ UNCHANGED <<issued, loggedOut, revoked>>

Unregister(keep, activity_name, email, authorization) ==
    /\ Serve(keep, Request("unregister", authorization, activity_name, email, "", ""),
             unregister_from_activity(sessions, activities, activity_name, email,
                                      authorization))
    /\ UNCHANGED <<issued, loggedOut, revoked>>

(***************************************************************************)
(* Worker threads (the handlers are plain def functions, which the server  *)
(* runs in a thread pool).  A thread is idle or is inside                  *)
(* signup_for_activity, unregister_from_activity, verify_session or        *)
(* logout, between two of its reads and writes of the stores.              *)
(***************************************************************************)
Threads == 1..NumThreads

IdleThread ==
    [pc |-> "idle", op |-> "", authorization |-> None, activity_name |-> "",
     email |-> "", status |-> 0, authenticated |-> FALSE]

Init ==
    /\ sessions = sessions_init
    /\ activities = activities_init
    /\ issued = {}
    /\ loggedOut = {}
    /\ revoked = {}
    /\ log = <<>>
    /\ threads = [t \in Threads |-> IdleThread]

(***************************************************************************)
(* Inputs of the sequential specification.                                 *)
(***************************************************************************)
AuthForms(token) == {token, Bearer \o token, Bearer \o Bearer \o token}

AuthPool == {None, <<>>, Bearer} \cup UNION {AuthForms(token) : token \in token_hex(NBytes)}

Usernames == {"mrodriguez", "nobody"}

Passwords == {"art2024", "chess123"}

Emails == {"daniel@mergington.edu", "new@mergington.edu"}

\* the activity and the email of a signup or unregister request
Targets ==
    {[activity_name |-> "Chess Club", email |-> e] : e \in Emails}
    \cup {[activity_name |-> "Unknown Club", email |-> "x@mergington.edu"]}

Next ==
    \/ \E u \in Usernames, p \in Passwords : Login(1, u, p)
    \/ \E a \in AuthPool : Logout(1, a)
    \/ \E a \in AuthPool : VerifySession(1, a)
    \/ \E a \in AuthPool, x \in Targets : Signup(1, x.activity_name, x.email, a)
    \/ \E a \in AuthPool, x \in Targets : Unregister(1, x.activity_name, x.email, a)

Spec == Init /\ [][Next]_vars

(***************************************************************************)
(* The specification of request pairs: the log keeps the last two          *)
(* requests, so that what two requests in a row do can be stated.          *)
(***************************************************************************)
AuthSeq == {None} \cup {Bearer \o token : token \in token_hex(NBytes)}

NextSeq ==
    \/ Login(2, "mrodriguez", "art2024")
    \/ \E a \in AuthSeq : Logout(2, a)
    \/ \E a \in AuthSeq \ {None}, e \in Emails : Signup(2, "Chess Club", e, a)
    \/ \E a \in AuthSeq \ {None}, e \in Emails : Unregister(2, "Chess Club", e, a)

SpecSeq == Init /\ [][NextSeq]_vars

(***************************************************************************)
(* The specification of a full activity: a client signs the students of a  *)
(* roster up for Math Club (10 places, 2 taken at start) in roster order.  *)
(***************************************************************************)
StudentList ==
    <<"student01@mergington.edu", "student02@mergington.edu",
      "student03@mergington.edu", "student04@mergington.edu",
      "student05@mergington.edu", "student06@mergington.edu",
      "student07@mergington.edu", "student08@mergington.edu",
      "student09@mergington.edu", "student10@mergington.edu",
      "student11@mergington.edu", "student12@mergington.edu">>

\* the client reaches student i once the students before i are enrolled
RosterReady(i) ==
    \A j \in 1..(i - 1) :
        contains(activities["Math Club"].participants, StudentList[j])

NextCap ==
    \/ \E u \in Usernames, p \in {"art2024"} : Login(1, u, p)
    \/ \E a \in AuthSeq : Logout(1, a)
    \/ \E a \in AuthSeq, i \in 1..NumStudents :
          /\ RosterReady(i)
          /\ Signup(1, "Math Club", StudentList[i], a)

SpecCap == Init /\ [][NextCap]_vars

(***************************************************************************)
(* The specification of concurrent handling.  A request for signup,        *)
(* unregister, verify-session or logout is taken by an idle thread, which  *)
(* then runs the handler one read or write of the stores at a time: the    *)
(* two reads of the session check, the activity lookup, the membership     *)
(* test, the append or remove; for verify-session the two reads of the     *)
(* session check; for logout the test of the token and the del.  Other     *)
(* threads run between any two of these steps.  An exception no handler    *)
(* catches (KeyError, ValueError) ends the request with status 500.  One   *)
(* teacher logs in; the requests that follow carry her token.              *)
(***************************************************************************)
Running(t, pc) == [threads EXCEPT ![t].pc = pc]

Finished(t, status) == [threads EXCEPT ![t].pc = "done", ![t].status = status]

\* verify_session returns {"authenticated": is_authenticated}
Verified(t, is_authenticated) ==
    [threads EXCEPT ![t].pc = "done", ![t].status = 200,
                    ![t].authenticated = is_authenticated]

Begin(t, op, activity_name, email, authorization) ==
    /\ threads[t].pc = "idle"
    /\ threads' = [threads EXCEPT ![t] =
                      [pc |-> IF op = "logout" THEN "logout_test" ELSE "session",
                       op |-> op, authorization |-> authorization,
                       activity_name |-> activity_name, email |-> email, status |-> 0,
                       authenticated |-> FALSE]]
    /\ UNCHANGED <<sessions, activities, issued, loggedOut, revoked, log>>

\* verify_teacher_session up to the first read of the store:
\* if not authorization: return False, then the left operand of
\* token in sessions and sessions[token] == "teacher"; a False here is the
\* function's result: signup and unregister raise HTTPException(403),
\* verify_session returns it
CheckSession(t) ==
    /\ threads[t].pc = "session"
    /\ threads' = IF /\ truthy(threads[t].authorization)
                     /\ token_from(threads[t].authorization) \in DOMAIN sessions
                  THEN Running(t, "role")
                  ELSE IF threads[t].op = "verify_session" THEN Verified(t, FALSE)
                  ELSE Finished(t, 403)
    /\ UNCHANGED <<sessions, activities, issued, loggedOut, revoked, log>>

\* the second read of the store, sessions[token] == "teacher": KeyError when
\* the token has been deleted since the first read
CheckRole(t) ==
    /\ threads[t].pc = "role"
    /\ LET token == token_from(threads[t].authorization)
       IN  threads' = IF token \notin DOMAIN sessions THEN Finished(t, 500)
                      ELSE IF threads[t].op = "verify_session"
                           THEN Verified(t, sessions[token] = "teacher")
                      ELSE IF sessions[token] = "teacher" THEN Running(t, "lookup")
                      ELSE Finished(t, 403)
    /\ UNCHANGED <<sessions, activities, issued, loggedOut, revoked, log>>

\* if activity_name not in activities: raise HTTPException(404)
LookupActivity(t) ==
    /\ threads[t].pc = "lookup"
    /\ threads' = IF threads[t].activity_name \in DOMAIN activities
                  THEN Running(t, "membership")
                  ELSE Finished(t, 404)
    /\ UNCHANGED <<sessions, activities, issued, loggedOut, revoked, log>>

\* if email in activity["participants"]: raise HTTPException(400), and for
\* unregister if email not in activity["participants"]
CheckMembership(t) ==
    /\ threads[t].pc = "membership"
    /\ LET present == contains(activities[threads[t].activity_name].participants,
                               threads[t].email)
       IN  threads' = IF present = (threads[t].op = "signup")
                      THEN Finished(t, 400)
                      ELSE Running(t, "mutate")
    /\ UNCHANGED <<sessions, activities, issued, loggedOut, revoked, log>>

\* a compare-and-append: the append only if the email is still absent
append_if_absent(acts, activity_name, email) ==
    IF contains(acts[activity_name].participants, email)
    THEN [activities |-> acts, status |-> 400]
    ELSE [activities |-> with_participants(acts, activity_name,
                            list_append(acts[activity_name].participants, email)),
          status |-> 200]

\* activity["participants"].append(email) and the return that follows it
append_email(acts, activity_name, email) ==
    [activities |-> with_participants(acts, activity_name,
                        list_append(acts[activity_name].participants, email)),
     status |-> 200]

\* activity["participants"].remove(email) and the return that follows it;
\* remove raises ValueError when the email is not in the list any more, which
\* the server answers with 500
remove_email(acts, activity_name, email) ==
    IF contains(acts[activity_name].participants, email)
    THEN [activities |-> with_participants(acts, activity_name,
                             list_remove(acts[activity_name].participants, email)),
          status |-> 200]
    ELSE [activities |-> acts, status |-> 500]

Mutate(t) ==
    /\ threads[t].pc = "mutate"
    /\ LET r == IF threads[t].op = "signup"
                THEN append_email(activities, threads[t].activity_name, threads[t].email)
                ELSE remove_email(activities, threads[t].activity_name, threads[t].email)
       IN  /\ activities' = r.activities
           /\ threads' = Finished(t, r.status)
    /\ UNCHANGED <<sessions, issued, loggedOut, revoked, log>>

\* logout up to its test: if authorization: ... if token in sessions; with
\* no header or no such session the handler returns its message at once
LogoutTest(t) ==
    /\ threads[t].pc = "logout_test"
    /\ LET token == token_from(threads[t].authorization)
           held  == truthy(threads[t].authorization) /\ token \in DOMAIN sessions
       IN  /\ threads' = IF held THEN Running(t, "logout_del") ELSE Finished(t, 200)
           /\ LET ended == IF truthy(threads[t].authorization) /\ ~held
                            THEN {token} \cap issued
                            ELSE {}
               IN  /\ loggedOut' = loggedOut \cup ended
                   /\ revoked' = revoked \cup ended
    /\ UNCHANGED <<sessions, activities, issued, log>>

\* del sessions[token] and the return that follows it; del raises KeyError
\* when the token has been deleted since the test, which the server answers
\* with 500
del_session(sess, token) ==
    IF token \in DOMAIN sess
    THEN [sessions |-> dict_del(sess, token), status |-> 200]
    ELSE [sessions |-> sess, status |-> 500]

LogoutDelete(t) ==
    /\ threads[t].pc = "logout_del"
    /\ LET token == token_from(threads[t].authorization)
           r     == del_session(sessions, token)
       IN  /\ sessions' = r.sessions
           /\ threads' = Finished(t, r.status)
           /\ loggedOut' = loggedOut \cup ({token} \cap issued)
           /\ revoked' = revoked \cup ({token} \cap issued)
    /\ UNCHANGED <<activities, issued, log>>

\* the response is sent and the thread is free again
Respond(t) ==
    /\ threads[t].pc = "done"
    /\ threads' = [threads EXCEPT ![t] = IdleThread]
    /\ UNCHANGED <<sessions, activities, issued, loggedOut, revoked, log>>

\* the Authorization values of a client that has logged in
Granted == {Bearer \o token : token \in issued}

NextConc ==
    \/ issued = {} /\ Login(0, "mrodriguez", "art2024")
    \/ \E t \in Threads, op \in {"signup", "unregister"}, a \in Granted,
          n \in {"Chess Club", "Unknown Club"} :
          Begin(t, op, n, "new@mergington.edu", a)
    \/ \E t \in Threads, op \in {"verify_session", "logout"}, a \in Granted :
          Begin(t, op, "", "", a)
    \/ \E t \in Threads : CheckSession(t)
    \/ \E t \in Threads : CheckRole(t)
    \/ \E t \in Threads : LookupActivity(t)
    \/ \E t \in Threads : CheckMembership(t)
    \/ \E t \in Threads : Mutate(t)
    \/ \E t \in Threads : LogoutTest(t)
    \/ \E t \in Threads : LogoutDelete(t)
    \/ \E t \in Threads : Respond(t)

SpecConc == Init /\ [][NextConc]_vars

(***************************************************************************)
(* Vocabulary of the properties.                                           *)
(***************************************************************************)
\* the last request served, and the one before it
Last == log[Len(log)]

Prev == log[Len(log) - 1]

IsRosterOp(e) == e.req.op \in {"signup", "unregister"}

\* the token the handlers derive from the Authorization value of entry e
DerivedToken(e) == token_from(e.req.authorization)

\* entry e arrived with the token of a teacher session of the store
HadTeacherSession(e) ==
    /\ truthy(e.req.authorization)
    /\ \E t \in DOMAIN e.sessions_before :
          t = DerivedToken(e) /\ e.sessions_before[t] = "teacher"

KnownActivity(e) == e.req.activity_name \in DOMAIN e.activities_before

RosterBefore(e) == e.activities_before[e.req.activity_name].participants

OnRosterBefore(e) == \E i \in DOMAIN RosterBefore(e) : RosterBefore(e)[i] = e.req.email

InCredentialList(username, password) ==
    \E i \in DOMAIN TeachersFile :
        TeachersFile[i].username = username /\ TeachersFile[i].password = password

\* tokens a login returned and no logout was asked to end since
Live == issued \ revoked

\* the token as the comment of verify_teacher_session and the interface
\* describe it: the value without its "Bearer " prefix
PrefixStripped(authorization) ==
    IF startswith(authorization, Bearer)
    THEN SubSeq(authorization, Len(Bearer) + 1, Len(authorization))
    ELSE authorization

\* two requests for the same activity and email
SameTarget(e1, e2) ==
    /\ e1.req.activity_name = e2.req.activity_name
    /\ e1.req.email = e2.req.email

\* the participant list that the request of thread t is about
Roster(acts, t) == acts[threads[t].activity_name].participants

(***************************************************************************)
(* C1 as the code has it: a signup or unregister changes a participant     *)
(* list only if the token derived from its Authorization value is in the   *)
(* session store with role 'teacher' when the request arrives; a request   *)
(* with no Authorization returns 403 and changes no participant list, and  *)
(* so does every request carrying a token that has been logged out, until  *)
(* a later login returns that same token again.                            *)
(***************************************************************************)
C1_RosterChangeNeedsLiveSession ==
    (log # <<>> /\ IsRosterOp(Last)) =>
        /\ (activities # Last.activities_before => HadTeacherSession(Last))
        /\ (~truthy(Last.req.authorization) \/ DerivedToken(Last) \in revoked) =>
              /\ Last.resp.status = 403
              /\ activities = Last.activities_before

\* a signup with a token that a login returned and a logout has ended,
\* while another session is live
C1_Witness ==
    /\ log # <<>>
    /\ Last.req.op = "signup"
    /\ DerivedToken(Last) \in revoked
    /\ DerivedToken(Last) \in Last.issued_before
    /\ KnownActivity(Last)
    /\ ~OnRosterBefore(Last)
    /\ Last.resp.status = 403
    /\ Live # {}

(***************************************************************************)
(* C1 as claimed: a signup or unregister changes a participant list only   *)
(* if the token derived from its Authorization value is in the session     *)
(* store with role 'teacher' when the request arrives; a request with no   *)
(* Authorization, and every request carrying a token that has been logged  *)
(* out at any time before, returns 403 and changes no participant list.    *)
(***************************************************************************)
C1_RosterChangeNeedsTeacherSession ==
    (log # <<>> /\ IsRosterOp(Last)) =>
        /\ (activities # Last.activities_before => HadTeacherSession(Last))
        /\ (~truthy(Last.req.authorization) \/ DerivedToken(Last) \in loggedOut) =>
              /\ Last.resp.status = 403
              /\ activities = Last.activities_before

(***************************************************************************)
(* C2 as the code has it: a login with a username/password pair of the     *)
(* credential list returns a token of the generator, 32 hexadecimal        *)
(* digits, and stores it with role 'teacher', whether or not it is a key   *)
(* of the store or was returned before; every token returned and not       *)
(* logged out since is a teacher session, and a session verification with  *)
(* it answers authenticated = true; a login with a pair not in the list    *)
(* returns 401 and leaves the session store unchanged.                     *)
(***************************************************************************)
C2_LoginStoresSession ==
    /\ \A t \in Live : t \in DOMAIN sessions /\ sessions[t] = "teacher"
    /\ (log # <<>> /\ Last.req.op = "login") =>
          IF InCredentialList(Last.req.username, Last.req.password)
          THEN /\ Last.resp.status = 200
               /\ Last.resp.token \in token_hex(NBytes)
               /\ Len(Last.resp.token) = 2 * NBytes
               /\ Last.resp.token \in Live
               /\ sessions = dict_set(Last.sessions_before, Last.resp.token, "teacher")
               /\ activities = Last.activities_before
          ELSE /\ Last.resp.status = 401
               /\ Last.resp.detail = "Invalid username or password"
               /\ sessions = Last.sessions_before
               /\ activities = Last.activities_before
    /\ (log # <<>> /\ Last.req.op = "verify_session"
          /\ \E t \in Live : Last.req.authorization \in {t, Bearer \o t}) =>
          /\ Last.resp.status = 200
          /\ Last.resp.authenticated = TRUE

\* a login returns a token that an earlier login returned and a logout has
\* ended since, while another session is live
C2_Witness ==
    /\ log # <<>>
    /\ Last.req.op = "login"
    /\ Last.resp.status = 200
    /\ Last.resp.token \in Last.issued_before
    /\ Last.resp.token \notin DOMAIN Last.sessions_before
    /\ DOMAIN Last.sessions_before # {}
    /\ sessions[Last.resp.token] = "teacher"

(***************************************************************************)
(* C2 as claimed: a login with a username/password pair of the credential  *)
(* list returns a token that was not a key of the session store and was    *)
(* never returned by an earlier login, and stores it with role 'teacher';  *)
(* a session verification with a token returned and not logged out since   *)
(* answers authenticated = true; a login with a pair not in the list       *)
(* returns 401 and leaves the session store unchanged.                     *)
(***************************************************************************)
C2_LoginIssuesNewToken ==
    /\ (log # <<>> /\ Last.req.op = "login") =>
          IF InCredentialList(Last.req.username, Last.req.password)
          THEN /\ Last.resp.status = 200
               /\ Last.resp.token \notin DOMAIN Last.sessions_before
               /\ Last.resp.token \notin Last.issued_before
               /\ sessions = dict_set(Last.sessions_before, Last.resp.token, "teacher")
          ELSE /\ Last.resp.status = 401
               /\ sessions = Last.sessions_before
    /\ (log # <<>> /\ Last.req.op = "verify_session"
          /\ \E t \in Live : Last.req.authorization \in {t, Bearer \o t}) =>
          /\ Last.resp.status = 200
          /\ Last.resp.authenticated = TRUE

(***************************************************************************)
(* C3: session verification answers true exactly when the derived token is *)
(* a key of the session store with role 'teacher', the derived token being *)
(* the value with a leading "Bearer " removed and nothing else altered     *)
(* (the raw value when it has no such prefix); an absent or empty value    *)
(* answers false; verification changes neither store.                      *)
(***************************************************************************)
C3_VerifyStripsOnlyThePrefix ==
    (log # <<>> /\ Last.req.op = "verify_session") =>
        /\ Last.resp.authenticated =
              (/\ truthy(Last.req.authorization)
               /\ PrefixStripped(Last.req.authorization) \in DOMAIN Last.sessions_before
               /\ Last.sessions_before[PrefixStripped(Last.req.authorization)] = "teacher")
        /\ sessions = Last.sessions_before
        /\ activities = Last.activities_before

(***************************************************************************)
(* C4: logout never fails: for any Authorization value, a logout that has  *)
(* been answered returned success, and the derived token is then not in    *)
(* the session store.  Stated of the handler threads, where a second       *)
(* logout of the same token may run between the test and the del of the    *)
(* first.                                                                  *)
(***************************************************************************)
C4_LogoutNeverFails ==
    \A t \in Threads :
        (threads[t].op = "logout" /\ threads[t].pc = "done") =>
            /\ threads[t].status = 200
            /\ token_from(threads[t].authorization) \notin DOMAIN sessions

(***************************************************************************)
(* The same statement for logouts served one at a time, with the rest of   *)
(* the contract: the success message, no other token's session and no      *)
(* participant list changed, and a second logout with the same value       *)
(* leaving the state as the first left it.                                 *)
(***************************************************************************)
LogoutIdempotentInSequence ==
    /\ (log # <<>> /\ Last.req.op = "logout") =>
          /\ Last.resp.status = 200
          /\ Last.resp.message = <<"Logout successful">>
          /\ truthy(Last.req.authorization) => DerivedToken(Last) \notin DOMAIN sessions
          /\ \A t \in DOMAIN Last.sessions_before :
                (truthy(Last.req.authorization) /\ t = DerivedToken(Last))
                \/ (t \in DOMAIN sessions /\ sessions[t] = Last.sessions_before[t])
          /\ DOMAIN sessions \subseteq DOMAIN Last.sessions_before
          /\ activities = Last.activities_before
    /\ (Len(log) >= 2 /\ Last.req.op = "logout" /\ Prev.req.op = "logout"
          /\ Last.req.authorization = Prev.req.authorization) =>
          /\ Prev.resp = Last.resp
          /\ sessions = Last.sessions_before
          /\ activities = Last.activities_before

(***************************************************************************)
(* C5: unregister undoes signup: with a teacher session, an existing       *)
(* activity a and an email e not on a's list, signup(e,a) directly         *)
(* followed by unregister(e,a) both succeed and leave every participant    *)
(* list as it was before the signup; an unregister(e,a) directly after a   *)
(* successful unregister(e,a) fails with 400.                              *)
(***************************************************************************)
C5_UnregisterUndoesSignup ==
    Len(log) >= 2 =>
        /\ (/\ Prev.req.op = "signup" /\ Last.req.op = "unregister"
            /\ SameTarget(Prev, Last)
            /\ HadTeacherSession(Prev) /\ HadTeacherSession(Last)
            /\ KnownActivity(Prev) /\ ~OnRosterBefore(Prev)) =>
              /\ Prev.resp.status = 200
              /\ Last.resp.status = 200
              /\ activities = Prev.activities_before
        /\ (/\ Prev.req.op = "unregister" /\ Last.req.op = "unregister"
            /\ SameTarget(Prev, Last)
            /\ HadTeacherSession(Prev) /\ HadTeacherSession(Last)
            /\ Prev.resp.status = 200) =>
              /\ Last.resp.status = 400
              /\ Last.resp.detail = "Student is not signed up for this activity"
              /\ activities = Last.activities_before

\* signup then unregister of an email that was not the last of the list at
\* start
C5_Witness ==
    /\ Len(log) >= 2
    /\ Prev.req.op = "signup" /\ Last.req.op = "unregister"
    /\ SameTarget(Prev, Last)
    /\ Prev.resp.status = 200 /\ Last.resp.status = 200
    /\ Len(RosterBefore(Prev)) >= 2

(***************************************************************************)
(* C6: signup is not idempotent: with a teacher session and an existing    *)
(* activity, signing up an email not yet on the list twice in a row gives  *)
(* 200 and then 400 'Student is already signed up', and the list is then   *)
(* the original list with the email appended once at its end.              *)
(***************************************************************************)
C6_SignupTwice ==
    (/\ Len(log) >= 2
     /\ Prev.req.op = "signup" /\ Last.req.op = "signup"
     /\ SameTarget(Prev, Last)
     /\ HadTeacherSession(Prev) /\ HadTeacherSession(Last)
     /\ KnownActivity(Prev) /\ ~OnRosterBefore(Prev)) =>
        /\ Prev.resp.status = 200
        /\ Last.resp.status = 400
        /\ Last.resp.detail = "Student is already signed up"
        /\ activities[Last.req.activity_name].participants
              = RosterBefore(Prev) \o <<Last.req.email>>
        /\ \A n \in DOMAIN activities \ {Last.req.activity_name} :
              activities[n] = Prev.activities_before[n]

C6_Witness ==
    /\ Len(log) >= 2
    /\ Prev.req.op = "signup" /\ Last.req.op = "signup"
    /\ SameTarget(Prev, Last)
    /\ Prev.resp.status = 200 /\ Last.resp.status = 400
    /\ RosterBefore(Prev) # <<>>

(***************************************************************************)
(* C7: signup and unregister check session, then activity existence, then  *)
(* membership, and report the first that fails: 403 whenever the session   *)
(* is invalid, else 404 when the activity is unknown, else 400 on the      *)
(* membership conflict (present for signup, absent for unregister), else   *)
(* 200; a request ending in 403, 404 or 400 changes neither store.         *)
(***************************************************************************)
C7_FirstFailingCheck ==
    (log # <<>> /\ IsRosterOp(Last)) =>
        /\ Last.resp.status =
              IF ~HadTeacherSession(Last) THEN 403
              ELSE IF ~KnownActivity(Last) THEN 404
              ELSE IF OnRosterBefore(Last) = (Last.req.op = "signup") THEN 400
              ELSE 200
        /\ Last.resp.status \in {403, 404, 400} =>
              /\ sessions = Last.sessions_before
              /\ activities = Last.activities_before
        /\ Last.resp.status = 403 =>
              Last.resp.detail = IF Last.req.op = "signup"
                                 THEN "Only teachers can register students"
                                 ELSE "Only teachers can unregister students"
        /\ Last.resp.status = 404 => Last.resp.detail = "Activity not found"
        /\ Last.resp.status = 400 =>
              Last.resp.detail = IF Last.req.op = "signup"
                                 THEN "Student is already signed up"
                                 ELSE "Student is not signed up for this activity"

\* no session and an unknown activity at once: 403 is reported
C7_Witness ==
    /\ log # <<>>
    /\ Last.req.op = "unregister"
    /\ ~HadTeacherSession(Last)
    /\ ~KnownActivity(Last)
    /\ Last.resp.status = 403
    /\ DOMAIN sessions # {}

(***************************************************************************)
(* C8: with requests served one at a time, no participant list ever holds  *)
(* an email twice, and the activity names and every activity's             *)
(* description, schedule and max_participants stay those of process start. *)
(***************************************************************************)
C8_NoDuplicatesFixedCatalog ==
    /\ DOMAIN activities = DOMAIN activities_init
    /\ \A n \in DOMAIN activities :
          /\ activities[n].description = activities_init[n].description
          /\ activities[n].schedule = activities_init[n].schedule
          /\ activities[n].max_participants = activities_init[n].max_participants
          /\ \A i, j \in DOMAIN activities[n].participants :
                activities[n].participants[i] = activities[n].participants[j] => i = j

\* an email removed and signed up again after a new one
C8_Witness ==
    activities["Chess Club"].participants =
        <<"michael@mergington.edu", "new@mergington.edu", "daniel@mergington.edu">>

(***************************************************************************)
(* C9: signup never compares the participant count with max_participants:  *)
(* with a teacher session, an existing activity and an email not on the    *)
(* list, signup succeeds and appends also when the list already holds      *)
(* max_participants or more entries.                                       *)
(***************************************************************************)
C9_SignupIgnoresCapacity ==
    (/\ log # <<>>
     /\ Last.req.op = "signup"
     /\ HadTeacherSession(Last)
     /\ KnownActivity(Last)
     /\ ~OnRosterBefore(Last)
     /\ Len(RosterBefore(Last))
           >= Last.activities_before[Last.req.activity_name].max_participants) =>
        /\ Last.resp.status = 200
        /\ activities[Last.req.activity_name].participants
              = RosterBefore(Last) \o <<Last.req.email>>

\* Math Club with more participants than max_participants
C9_Witness ==
    /\ log # <<>>
    /\ Last.req.op = "signup"
    /\ Last.resp.status = 200
    /\ Len(activities["Math Club"].participants)
          > activities["Math Club"].max_participants

(***************************************************************************)
(* C10: the membership test and the append of signup are not atomic: a     *)
(* signup that passed its membership test appends and succeeds also when   *)
(* another request has appended the same email in between, so that the     *)
(* email is then twice in the list.                                        *)
(***************************************************************************)
C10_DuplicateAppend ==
    [][\A t \in Threads :
          (/\ threads[t].pc = "mutate"
           /\ threads[t].op = "signup"
           /\ threads'[t].pc = "done"
           /\ contains(Roster(activities, t), threads[t].email)) =>
             /\ threads'[t].status = 200
             /\ Roster(activities', t) = Roster(activities, t) \o <<threads[t].email>>
             /\ count(Roster(activities', t), threads[t].email) >= 2]_vars

\* two signups of the same email for the same activity have both answered
\* 200 and the email is twice in the list
C10_Witness ==
    \E t, u \in Threads :
        /\ t # u
        /\ threads[t].pc = "done" /\ threads[u].pc = "done"
        /\ threads[t].op = "signup" /\ threads[u].op = "signup"
        /\ threads[t].status = 200 /\ threads[u].status = 200
        /\ threads[t].activity_name = threads[u].activity_name
        /\ threads[t].email = threads[u].email
        /\ count(Roster(activities, t), threads[t].email) = 2

====
